---- MODULE Spec2Model ----
(***************************************************************************)
(* A model of src/mega.py: the Mega.nz -> Telegram relay handler           *)
(* download_file, its helpers split_and_upload and update_progress, and    *)
(* the on-disk staging area they share.                                    *)
(*                                                                         *)
(* Handlers are asyncio coroutines: a handler runs without interruption    *)
(* from the return of one `await` to the call of the next one, and other   *)
(* handlers may run while it is suspended.  One action of the model is one *)
(* such segment of one handler.  mega_client.download_url is a blocking    *)
(* call (no await), so the fetch is part of the segment that calls it.     *)
(* The status sink (message.reply / progress_message.edit_text) is taken   *)
(* to deliver, except for the edit_text of a progress poll (line 140),     *)
(* which may raise; the transport of send_document, the remote storage and *)
(* the archive contents are the environment and may fail.                  *)
(***************************************************************************)
EXTENDS Integers, Sequences, FiniteSets, TLC

(***************************************************************************)
(* Bounds and constants                                                    *)
(***************************************************************************)

\* The number of model bytes that stands for 1024 * 1024 * 1024 bytes.  The
\* model counts bytes one by one, so the unit is scaled down; the code uses
\* sizes only through comparison, integer division and read length.
GiB == 1

\* src/mega.py:107: chunk_size = 2 * 1024 * 1024 * 1024
chunk_size == 2 * GiB

\* The largest staged plain file is MaxChunks full chunks plus one byte.
MaxChunks == 2

MaxSize == MaxChunks * chunk_size + 1

\* src/mega.py:195: the size above which download_file calls split_and_upload,
\* 2 * 1024 * 1024 * 1024.
SplitThreshold == 2 * GiB

\* The handlers that may be in flight at the same time.
Jobs == {1, 2}

(***************************************************************************)
(* Message text and the link syntax (src/mega.py:148,151,156,157)          *)
(*                                                                         *)
(* A text is a sequence of tokens, each a literal piece of text: "x",      *)
(* "file", "folder", "/", "#" and the prefix "https://mega.nz/"; the text  *)
(* is their concatenation.  "x", "file" and "folder" consist of characters *)
(* of the class [A-Za-z0-9_-]; so does the "https" the prefix starts with, *)
(* which a run of the class therefore takes in before it stops at ":".     *)
(***************************************************************************)
Prefix == "https://mega.nz/"

IdTok == {"x", "file", "folder"}

KindTok == {"file", "folder"}

Tokens == {Prefix, "/", "#"} \cup IdTok

\* What re.search returns when nothing matches.
NoMatch == <<>>

\* [A-Za-z0-9_-]+ from position q on: `end` is the last token taken whole
\* (q - 1 if none), `frag` tells that the "https" of a following prefix was
\* taken too.
RECURSIVE IdRun(_, _)
IdRun(t, q) ==
  IF q <= Len(t) /\ t[q] \in IdTok THEN IdRun(t, q + 1)
  ELSE [end |-> q - 1, frag |-> q <= Len(t) /\ t[q] = Prefix]

RunNonEmpty(r, q) == r.end >= q \/ r.frag

\* The text a run has matched, as tokens.
RunText(t, p, r) == SubSeq(t, p, r.end) \o (IF r.frag THEN <<"https">> ELSE <<>>)

\* https://mega\.nz/(file|folder)/[A-Za-z0-9_-]+ matches at position p.
MatchAt(t, p) ==
  /\ p + 2 <= Len(t)
  /\ t[p] = Prefix
  /\ t[p + 1] \in KindTok
  /\ t[p + 2] = "/"
  /\ RunNonEmpty(IdRun(t, p + 3), p + 3)

\* The greedy match starting at p, with the optional (?:#[A-Za-z0-9_-]+)?.
MatchText(t, p) ==
  LET r1 == IdRun(t, p + 3)
      r2 == IdRun(t, r1.end + 2)
  IN  IF /\ ~r1.frag
         /\ r1.end + 1 <= Len(t)
         /\ t[r1.end + 1] = "#"
         /\ RunNonEmpty(r2, r1.end + 2)
      THEN RunText(t, p, r2)
      ELSE RunText(t, p, r1)

\* re.search(...).group(0): the leftmost match, or NoMatch.
re_search(t) ==
  LET starts == {p \in 1..Len(t) : MatchAt(t, p)}
  IN  IF starts = {} THEN NoMatch
      ELSE MatchText(t, CHOOSE q \in starts : \A r \in starts : q <= r)

\* The kind segment of a matched link: group(1).
LinkKind(link) == link[2]

\* `"folder" in mega_link`: a substring test on the whole matched link.
IsFolderLink(link) == \E i \in DOMAIN link : link[i] = "folder"

FileLink == <<Prefix, "file", "/", "x", "#", "x">>
FolderLink == <<Prefix, "folder", "/", "x">>
FileLinkFolderId == <<Prefix, "file", "/", "folder", "#", "x">>
NoLinkText == <<"x", "/", "x">>
NoIdText == <<Prefix, "file", "/", "#", "x">>

\* The message texts the handlers are started with.
Texts == {FileLink, FolderLink, FileLinkFolderId, NoLinkText, NoIdText}

(***************************************************************************)
(* Files on disk and remote objects                                        *)
(***************************************************************************)
dest_path == <<"downloads">>

extracted_path == <<"downloads", "extracted">>

\* A file path: directory, base name, and the N of a ".partN" suffix (-1: none).
Path(d, n, k) == [dir |-> d, name |-> n, part |-> k]

NoPath == Path(<<>>, "", -1)

\* What a file holds: its bytes; whether they carry the zip signature; and for
\* an archive its members in archive order, `bad` being the number of the
\* member at which extraction raises (0: the archive is sound).
Plain(b) == [zip |-> FALSE, bytes |-> b, members |-> <<>>, bad |-> 0]

Archive(b, ms, k) == [zip |-> TRUE, bytes |-> b, members |-> ms, bad |-> k]

Member(d, n, b) == [dir |-> d, name |-> n, bytes |-> b]

PlainObject(s) ==
  [name |-> IF s > chunk_size THEN "big" ELSE "doc",
   content |-> Plain([i \in 1..s |-> 10 * s + i])]

ZipFlat ==
  [name |-> "pack",
   content |-> Archive(<<901>>,
       <<Member(<<>>, "m1", <<101>>), Member(<<>>, "m2", <<102>>)>>, 0)]

ZipNested ==
  [name |-> "pack",
   content |-> Archive(<<902>>,
       <<Member(<<>>, "m1", <<201>>), Member(<<"sub">>, "m3", <<203>>)>>, 0)]

ZipCorrupt ==
  [name |-> "pack",
   content |-> Archive(<<903>>,
       <<Member(<<>>, "m4", <<301>>), Member(<<>>, "m5", <<302>>)>>, 2)]

\* What a link may resolve to on the remote storage.
Catalog == {PlainObject(s) : s \in 0..MaxSize} \cup {ZipFlat, ZipNested, ZipCorrupt}

NoObject == [name |-> "", content |-> Plain(<<>>)]

(***************************************************************************)
(* Captions, reports, events                                               *)
(***************************************************************************)
Caption(k, i, n, nm) == [kind |-> k, index |-> i, total |-> n, name |-> nm]

NoCaption == Caption("none", 0, 0, "")

\* src/mega.py:127: the total written into a chunk caption.
TotalParts(file_size) == (file_size \div chunk_size) + 1

\* f"Part {chunk_index + 1}/{(file_size // chunk_size) + 1} of {base_name}"
PartCaption(chunk_index, file_size, base_name) ==
  Caption("part", chunk_index + 1, TotalParts(file_size), base_name)

ExtractedCaption(file) == Caption("extracted", 0, 0, file)

CreatedCaption == Caption("created", 0, 0, "")

\* What the caller is told last: the text of lines 158, 206 and 209.  The error
\* text interpolates the exception e and nothing else.
NoReport == [kind |-> "none", cause |-> ""]

CompletedReport == [kind |-> "completed", cause |-> ""]

UnsupportedReport == [kind |-> "unsupported", cause |-> ""]

ErrorReport(e) == [kind |-> "error", cause |-> e]

\* One entry of a handler's history of file and network operations.
Ev(o, p, c, d) == [op |-> o, path |-> p, cap |-> c, data |-> d]

(***************************************************************************)
(* State                                                                   *)
(***************************************************************************)
VARIABLES
  text,      \* text[j]: the message text handler j was started with
  job,       \* job[j]: the local variables and position of handler j
  files,     \* the regular files on disk: path -> content
  dirs,      \* the directories on disk
  trace      \* trace[j]: the operations handler j has performed, in order

vars == <<text, job, files, dirs, trace>>

\* The locals of download_file and split_and_upload.  pc names the await the
\* handler is suspended at.  f and pos are the open source file of
\* split_and_upload (its bytes as of open(), and the read offset); wfiles and
\* wdirs are the state of the os.walk generator (the files of the current
\* directory not yet visited, the directories still to list); sending is
\* the document of the send_document call in flight; file_size and
\* current_size are also the locals of update_progress.  obj (the remote
\* object download_url fetched), failed (the ordinal of the item whose upload
\* raised, 0 if none) and alone (whether every other handler had returned
\* when this one started) record history and are read by no action.
NewJob ==
  [pc |-> "new", mega_link |-> <<>>, file_path |-> NoPath, file_size |-> 0,
   current_size |-> 0,
   f |-> <<>>, pos |-> 0, chunk_index |-> 0, sending |-> NoPath,
   wfiles |-> {}, wdirs |-> <<>>, report |-> NoReport,
   obj |-> NoObject, failed |-> 0, alone |-> FALSE]

NoFiles == [p \in {} |-> Plain(<<>>)]

Init ==
  /\ text \in [Jobs -> Texts]
  /\ job = [j \in Jobs |-> NewJob]
  /\ files = NoFiles
  /\ dirs = {}
  /\ trace = [j \in Jobs |-> <<>>]

(***************************************************************************)
(* File system operations                                                  *)
(***************************************************************************)
exists(fs, p) == p \in DOMAIN fs

getsize(fs, p) == Len(fs[p].bytes)

WriteFile(fs, p, c) == (p :> c) @@ fs

\* A removal that leaves the file in place.
RemoveFile_Keep(fs, p) == fs

\* os.remove(p)
RemoveFile(fs, p) == [q \in DOMAIN fs \ {p} |-> fs[q]]

\* zipfile.is_zipfile: False for a missing file, else the signature test.
is_zipfile(fs, p) == exists(fs, p) /\ fs[p].zip

\* The files directly in directory d, and its immediate subdirectories.
FilesIn(fs, d) == {p \in DOMAIN fs : p.dir = d}

SubdirsOf(ds, d) == {e \in ds : Len(e) = Len(d) + 1 /\ SubSeq(e, 1, Len(d)) = d}

\* os.makedirs(d + rel, exist_ok=True) for a relative directory rel.
MakeDirs(ds, d, rel) == ds \cup {d \o SubSeq(rel, 1, k) : k \in 0..Len(rel)}

RECURSIVE SeqOf(_)
SeqOf(S) == IF S = {} THEN <<>> ELSE LET x == CHOOSE y \in S : TRUE IN <<x>> \o SeqOf(S \ {x})

(***************************************************************************)
(* zip_ref.extractall(extracted_path), src/mega.py:177-178                 *)
(***************************************************************************)
MemberPath(m) == Path(extracted_path \o m.dir, m.name, -1)

\* The members extractall writes before it returns or raises: all of a sound
\* archive, and those up to and including the corrupt one otherwise (its
\* bytes are written before the CRC check fails).
ExtractedMembers(c) ==
  SubSeq(c.members, 1, IF c.bad = 0 THEN Len(c.members) ELSE c.bad)

ExtractRaises(c) == c.bad # 0

ExtractFiles(fs, ms) ==
  LET new == {MemberPath(ms[i]) : i \in DOMAIN ms}
      last(p) == CHOOSE i \in DOMAIN ms :
                   /\ MemberPath(ms[i]) = p
                   /\ \A k \in DOMAIN ms : MemberPath(ms[k]) = p => k <= i
  IN  [p \in DOMAIN fs \cup new |->
         IF p \in new THEN Plain(ms[last(p)].bytes) ELSE fs[p]]

RECURSIVE ExtractDirs(_, _)
ExtractDirs(ds, ms) ==
  IF ms = <<>> THEN ds
  ELSE ExtractDirs(MakeDirs(ds, extracted_path, Head(ms).dir), Tail(ms))

(***************************************************************************)
(* os.walk(extracted_path), src/mega.py:183: top-down, each directory      *)
(* listed when the generator reaches it.                                   *)
(***************************************************************************)
RECURSIVE WalkAdvance(_, _, _, _)
WalkAdvance(fs, ds, wf, wd) ==
  IF wf # {} \/ wd = <<>> THEN [wfiles |-> wf, wdirs |-> wd]
  ELSE LET d == Head(wd)
       IN  IF d \in ds
           THEN WalkAdvance(fs, ds, FilesIn(fs, d), SeqOf(SubdirsOf(ds, d)) \o Tail(wd))
           ELSE WalkAdvance(fs, ds, {}, Tail(wd))

\* os.rmdir succeeds only on an existing, empty directory.
DirEmpty(fs, ds, d) == FilesIn(fs, d) = {} /\ SubdirsOf(ds, d) = {}

(***************************************************************************)
(* split_and_upload's read loop, src/mega.py:113-122                       *)
(***************************************************************************)
Min(a, b) == IF a < b THEN a ELSE b

\* A read one byte short of the chunk size.
ReadChunk_OneShort(data, pos) ==
  SubSeq(data, pos + 1, Min(pos + chunk_size - 1, Len(data)))

\* f.read(chunk_size) at offset pos: up to chunk_size bytes, empty at EOF.
ReadChunk(data, pos) == SubSeq(data, pos + 1, Min(pos + chunk_size, Len(data)))

\* f"{file_path}.part{chunk_index}"
ChunkPath(file_path, chunk_index) == Path(file_path.dir, file_path.name, chunk_index)

\* An index that advances by two.
NextChunkIndex_Skip(chunk_index) == chunk_index + 2

\* chunk_index += 1
NextChunkIndex(chunk_index) == chunk_index + 1

(***************************************************************************)
(* Control flow shared by the segments                                     *)
(***************************************************************************)
\* The number of send_document calls handler j has made.
RECURSIVE CountOp(_, _)
CountOp(tr, o) ==
  IF tr = <<>> THEN 0
  ELSE (IF Head(tr).op = o THEN 1 ELSE 0) + CountOp(Tail(tr), o)

\* except Exception as e (lines 207-209): the error text is edited into the
\* progress message and the handler returns.
Raise(jr, e) == [jr EXCEPT !.pc = "Failed", !.report = ErrorReport(e)]

\* Line 206: the end of the try block.
Finish(jr) == [jr EXCEPT !.pc = "Completed", !.report = CompletedReport]

\* What the transport did with a send_document call.
Outcome(ok) == IF ok THEN "sent" ELSE "senderr"

\* A failed send_document swallowed inside the loop.
UploadRaises_Swallowed(ok) == FALSE

\* Whether a send_document that did not succeed raises into the try block.
UploadRaises(ok) == ~ok

\* The state after a segment of handler j.
Commit(j, jr, fs, ds, evs) ==
  /\ job' = [job EXCEPT ![j] = jr]
  /\ files' = fs
  /\ dirs' = ds
  /\ trace' = [trace EXCEPT ![j] = @ \o evs]
  /\ UNCHANGED text

(***************************************************************************)
(* update_progress, src/mega.py:132-146                                    *)
(***************************************************************************)
\* The ratio of line 137 without the factor 100.
progress_percentage_Fraction(current_size, file_size) ==
  IF file_size > 0
  THEN (2 * current_size * 100 + file_size) \div (2 * file_size)
  ELSE 0

\* Line 137 as line 138 prints it ({progress_percentage:.2f}): the percentage
\* in hundredths of a percent, rounded to the nearest hundredth.
progress_percentage(current_size, file_size) ==
  IF file_size > 0
  THEN (2 * current_size * 10000 + file_size) \div (2 * file_size)
  ELSE 0

\* Line 144: the loop is left after this poll.
MonitorDone(current_size, file_size) == current_size >= file_size

\* One poll: the progress text handed to message.edit_text (line 140).
PollEvent(p, current_size, file_size) ==
  Ev("poll", p, NoCaption,
     <<progress_percentage(current_size, file_size), current_size, file_size>>)

\* What the status sink did with the edit_text of a poll.
EditOutcome(ok) == IF ok THEN "edited" ELSE "editerr"

\* A monitor without the try/except of lines 139-143.
ProgressEditRaises_Escapes(ok) == ~ok

\* Lines 139-143: whether a failed edit_text leaves update_progress as an
\* exception.  It is logged and passed over.
ProgressEditRaises(ok) == FALSE

(***************************************************************************)
(* download_file, src/mega.py:148-209                                      *)
(***************************************************************************)
\* The test of line 195 with the threshold included.
NeedsSplit_Inclusive(size) == size >= SplitThreshold

\* Line 195: a plain file larger than the threshold goes to split_and_upload.
NeedsSplit(size) == size > SplitThreshold

\* The positions of a handler that has returned.
Returned == {"ignored", "rejected", "Completed", "Failed"}

\* A handler without the test of line 157.
Supported_Always(link) == TRUE

\* Line 157: whether the handler goes on to the download.
Supported(link) == ~IsFolderLink(link)

\* A message arrives.  The filter of line 148 starts the handler only for a
\* text the pattern matches; the handler then runs lines 151-164 up to the
\* await of message.reply("Starting download...").
Receive(j) ==
  /\ job[j].pc = "new"
  /\ LET jr == [job[j] EXCEPT !.alone = \A k \in Jobs \ {j} : job[k].pc \in Returned]
         link == re_search(text[j])
     IN  IF link = NoMatch
         THEN Commit(j, [jr EXCEPT !.pc = "ignored"], files, dirs, <<>>)
         ELSE IF ~Supported(link)
         THEN Commit(j, [jr EXCEPT !.pc = "rejected", !.mega_link = link,
                                   !.report = UnsupportedReport],
                     files, dirs, <<>>)
         ELSE Commit(j, [jr EXCEPT !.pc = "await_start", !.mega_link = link],
                     files, MakeDirs(dirs, dest_path, <<>>),
                     <<Ev("makedirs", Path(dest_path, "", -1), NoCaption, <<>>)>>)

\* Lines 166-171 and 134-140: download_url fetches the whole object (or
\* raises), then update_progress reads its size twice and awaits edit_text.
Fetch(j) ==
  /\ job[j].pc = "await_start"
  /\ \E ok \in BOOLEAN : \E o \in Catalog :
       LET jr == job[j]
           p == Path(dest_path, o.name, -1)
           fs == WriteFile(files, p, o.content)
       IN  IF ~ok
           THEN /\ o = CHOOSE c \in Catalog : TRUE
                /\ Commit(j, Raise(jr, "DownloadFailure"), files, dirs,
                          <<Ev("fetcherr", NoPath, NoCaption, <<>>)>>)
           ELSE Commit(j, [jr EXCEPT !.pc = "await_progress", !.file_path = p,
                                     !.file_size = getsize(fs, p),
                                     !.current_size = getsize(fs, p), !.obj = o],
                       fs, dirs,
                       <<Ev("fetch", p, NoCaption, o.content.bytes),
                         PollEvent(p, getsize(fs, p), getsize(fs, p))>>)

\* The upload loop over the walk (lines 183-193), entered with the walk
\* state of jr: the next file is sent, or the walk is over and the
\* extraction directory is removed and the task reported complete.
WalkContinue(j, jr, fs, ds, evs) ==
  LET w == WalkAdvance(fs, ds, jr.wfiles, jr.wdirs)
  IN  IF w.wfiles = {}
      THEN IF extracted_path \notin ds
           THEN Commit(j, Raise([jr EXCEPT !.wfiles = {}, !.wdirs = <<>>],
                                "FileNotFoundError"), fs, ds, evs)
           ELSE IF ~DirEmpty(fs, ds, extracted_path)
           THEN Commit(j, Raise([jr EXCEPT !.wfiles = {}, !.wdirs = <<>>],
                                "OSError"), fs, ds, evs)
           ELSE Commit(j, Finish([jr EXCEPT !.wfiles = {}, !.wdirs = <<>>]),
                       fs, ds \ {extracted_path},
                       evs \o <<Ev("rmdir", Path(extracted_path, "", -1), NoCaption, <<>>)>>)
      ELSE \E p \in w.wfiles :
             LET jr2 == [jr EXCEPT !.wfiles = w.wfiles \ {p}, !.wdirs = w.wdirs,
                                   !.sending = p]
                 k == CountOp(trace[j] \o evs, "send") + 1
             IN  IF exists(fs, p)
                 THEN Commit(j, [jr2 EXCEPT !.pc = "await_member"], fs, ds,
                        evs \o <<Ev("send", p, ExtractedCaption(p.name), fs[p].bytes)>>)
                 ELSE Commit(j, Raise([jr2 EXCEPT !.failed = k], "InvalidDocument"),
                        fs, ds, evs \o <<Ev("senderr", p, NoCaption, <<>>)>>)

\* Lines 140-146, 171-182 and 194-198, from the return of the poll's
\* edit_text (sink: whether it delivered) to the next await.  The loop of
\* update_progress is left or sleeps; after it the object is classified: an
\* archive is expanded and removed; a plain file goes to split_and_upload
\* (which reads the size, line 108) or to the single upload.  Each branch
\* stops at the await of its edit_text.  The result is the handler's locals,
\* the disk and the operations performed.
AfterProgress(jr, fs0, ds0, sink) ==
  LET p == jr.file_path
      R(r, fs, ds, evs) ==
        [jr |-> r, fs |-> fs, ds |-> ds,
         evs |-> <<Ev(EditOutcome(sink), p, NoCaption, <<>>)>> \o evs]
  IN  IF ProgressEditRaises(sink)
      THEN R(Raise(jr, "EditFailure"), fs0, ds0, <<>>)
      ELSE IF ~MonitorDone(jr.current_size, jr.file_size)
      THEN R([jr EXCEPT !.pc = "await_sleep"], fs0, ds0, <<>>)
      ELSE IF is_zipfile(fs0, p)
      THEN LET c == fs0[p]
               ms == ExtractedMembers(c)
               fs == ExtractFiles(fs0, ms)
               ds == ExtractDirs(MakeDirs(ds0, extracted_path, <<>>), ms)
           IN  IF ExtractRaises(c)
               THEN R(Raise(jr, "BadZipFile"), fs, ds,
                      <<Ev("extracterr", p, NoCaption, <<>>)>>)
               ELSE R([jr EXCEPT !.pc = "await_extracted_msg"],
                      RemoveFile(fs, p), ds,
                      <<Ev("extract", p, NoCaption, <<>>),
                        Ev("remove", p, NoCaption, <<>>)>>)
      ELSE IF ~exists(fs0, p)
      THEN R(Raise(jr, "FileNotFoundError"), fs0, ds0, <<>>)
      ELSE IF NeedsSplit(getsize(fs0, p))
      THEN R([jr EXCEPT !.pc = "await_split_msg", !.file_size = getsize(fs0, p)],
             fs0, ds0, <<Ev("getsize", p, NoCaption, fs0[p].bytes)>>)
      ELSE R([jr EXCEPT !.pc = "await_upload_msg"], fs0, ds0,
             <<Ev("getsize", p, NoCaption, fs0[p].bytes)>>)

\* The segment of download_file that AfterProgress computes.  In
\* download_file the poll has read the size of a complete file twice, so the
\* loop is always left.
Classify(j) ==
  /\ job[j].pc = "await_progress"
  /\ \E sink \in BOOLEAN :
       LET r == AfterProgress(job[j], files, dirs, sink)
       IN  Commit(j, r.jr, r.fs, r.ds, r.evs)

\* Line 183: the walk starts at extracted_path.
WalkStart(j) ==
  /\ job[j].pc = "await_extracted_msg"
  /\ WalkContinue(j, [job[j] EXCEPT !.wfiles = {}, !.wdirs = <<extracted_path>>],
                  files, dirs, <<>>)

\* Lines 186-191: send_document of a member returns or raises; the member is
\* removed and the loop goes on.
MemberSent(j) ==
  /\ job[j].pc = "await_member"
  /\ \E ok \in BOOLEAN :
       LET jr == job[j]
           p == jr.sending
           k == CountOp(trace[j], "send")
       IN  IF UploadRaises(ok)
           THEN Commit(j, Raise([jr EXCEPT !.failed = k], "UploadFailure"),
                       files, dirs, <<Ev("senderr", p, NoCaption, <<>>)>>)
           ELSE IF ~exists(files, p)
           THEN Commit(j, Raise(jr, "FileNotFoundError"), files, dirs,
                       <<Ev(Outcome(ok), p, NoCaption, <<>>)>>)
           ELSE WalkContinue(j, jr, RemoveFile(files, p), dirs,
                       <<Ev(Outcome(ok), p, NoCaption, <<>>),
                         Ev("remove", p, NoCaption, <<>>)>>)

(***************************************************************************)
(* split_and_upload, src/mega.py:105-130                                   *)
(***************************************************************************)
\* One turn of the while loop from the read (line 116) to the await of
\* send_document (line 124), or to the break and line 206.
SplitContinue(j, jr, fs, evs) ==
  LET chunk == ReadChunk(jr.f, jr.pos)
      chunk_path == ChunkPath(jr.file_path, jr.chunk_index)
  IN  IF chunk = <<>>
      THEN Commit(j, Finish(jr), fs, dirs, evs)
      ELSE Commit(j, [jr EXCEPT !.pc = "await_chunk", !.pos = jr.pos + Len(chunk),
                                !.sending = chunk_path],
                  WriteFile(fs, chunk_path, Plain(chunk)), dirs,
                  evs \o <<Ev("write", chunk_path, NoCaption, chunk),
                           Ev("send", chunk_path,
                              PartCaption(jr.chunk_index, jr.file_size, jr.file_path.name),
                              chunk)>>)

\* Lines 113-114: edit_text has returned; the source file is opened.
SplitStart(j) ==
  /\ job[j].pc = "await_split_msg"
  /\ LET jr == job[j]
     IN  IF ~exists(files, jr.file_path)
         THEN Commit(j, Raise(jr, "FileNotFoundError"), files, dirs, <<>>)
         ELSE SplitContinue(j, [jr EXCEPT !.f = files[jr.file_path].bytes,
                                          !.pos = 0, !.chunk_index = 0],
                            files, <<>>)

\* Lines 124-130: send_document of a chunk returns or raises; the chunk file
\* is removed, the index advances and the loop goes on.
ChunkSent(j) ==
  /\ job[j].pc = "await_chunk"
  /\ \E ok \in BOOLEAN :
       LET jr == job[j]
           p == jr.sending
       IN  IF UploadRaises(ok)
           THEN Commit(j, Raise([jr EXCEPT !.failed = jr.chunk_index + 1], "UploadFailure"),
                       files, dirs, <<Ev("senderr", p, NoCaption, <<>>)>>)
           ELSE IF ~exists(files, p)
           THEN Commit(j, Raise(jr, "FileNotFoundError"), files, dirs,
                       <<Ev(Outcome(ok), p, NoCaption, <<>>)>>)
           ELSE SplitContinue(j, [jr EXCEPT !.chunk_index = NextChunkIndex(jr.chunk_index)],
                       RemoveFile(files, p),
                       <<Ev(Outcome(ok), p, NoCaption, <<>>),
                         Ev("remove", p, NoCaption, <<>>)>>)

(***************************************************************************)
(* The single upload, src/mega.py:198-204                                  *)
(***************************************************************************)
\* Lines 198-199: edit_text has returned; send_document is called.
UploadStart(j) ==
  /\ job[j].pc = "await_upload_msg"
  /\ LET jr == job[j]
         p == jr.file_path
     IN  IF exists(files, p)
         THEN Commit(j, [jr EXCEPT !.pc = "await_single", !.sending = p], files, dirs,
                     <<Ev("send", p, CreatedCaption, files[p].bytes)>>)
         ELSE Commit(j, Raise([jr EXCEPT !.failed = 1], "InvalidDocument"), files, dirs,
                     <<Ev("senderr", p, NoCaption, <<>>)>>)

\* Lines 199-206: send_document returns or raises; the file is removed and
\* the task reported complete.
SingleSent(j) ==
  /\ job[j].pc = "await_single"
  /\ \E ok \in BOOLEAN :
       LET jr == job[j]
           p == jr.file_path
       IN  IF UploadRaises(ok)
           THEN Commit(j, Raise([jr EXCEPT !.failed = 1], "UploadFailure"), files, dirs,
                       <<Ev("senderr", p, NoCaption, <<>>)>>)
           ELSE IF ~exists(files, p)
           THEN Commit(j, Raise(jr, "FileNotFoundError"), files, dirs,
                       <<Ev(Outcome(ok), p, NoCaption, <<>>)>>)
           ELSE Commit(j, Finish(jr), RemoveFile(files, p), dirs,
                       <<Ev(Outcome(ok), p, NoCaption, <<>>),
                         Ev("remove", p, NoCaption, <<>>)>>)

Next ==
  \E j \in Jobs :
    \/ Receive(j)
    \/ Fetch(j)
    \/ Classify(j)
    \/ WalkStart(j)
    \/ MemberSent(j)
    \/ SplitStart(j)
    \/ ChunkSent(j)
    \/ UploadStart(j)
    \/ SingleSent(j)

Spec == Init /\ [][Next]_vars

(***************************************************************************)
(* split_and_upload called on its own: the handler stands at the await of  *)
(* line 111 with a staged file of any content up to MaxSize bytes.         *)
(***************************************************************************)
Byte == {0, 1}

RECURSIVE SeqsUpTo(_)
SeqsUpTo(n) ==
  IF n = 0 THEN {<<>>}
  ELSE LET shorter == SeqsUpTo(n - 1)
       IN  shorter \cup {Append(q, b) : q \in {r \in shorter : Len(r) = n - 1}, b \in Byte}

SplitInput == Path(dest_path, "big", -1)

InitSplit ==
  /\ text = [j \in Jobs |-> IF j = 1 THEN FileLink ELSE NoLinkText]
  /\ \E data \in SeqsUpTo(MaxSize) :
       /\ files = WriteFile(NoFiles, SplitInput, Plain(data))
       /\ job = [j \in Jobs |->
                   IF j = 1
                   THEN [NewJob EXCEPT !.pc = "await_split_msg", !.mega_link = FileLink,
                                       !.file_path = SplitInput, !.file_size = Len(data)]
                   ELSE [NewJob EXCEPT !.pc = "ignored"]]
  /\ dirs = {dest_path}
  /\ trace = [j \in Jobs |-> <<>>]

NextSplit == \E j \in Jobs : SplitStart(j) \/ ChunkSent(j)

SpecSplit == InitSplit /\ [][NextSplit]_vars

(***************************************************************************)
(* The handler started with any text of up to MaxTextLen tokens and run up *)
(* to its first network transfer, the fetch; the other handler's message   *)
(* carries no link.                                                        *)
(***************************************************************************)
MaxTextLen == 6

RECURSIVE TextsUpTo(_)
TextsUpTo(n) ==
  IF n = 0 THEN {<<>>}
  ELSE LET shorter == TextsUpTo(n - 1)
       IN  shorter \cup {Append(q, b) : q \in {r \in shorter : Len(r) = n - 1}, b \in Tokens}

InitLink ==
  /\ \E t \in TextsUpTo(MaxTextLen) :
       text = [j \in Jobs |-> IF j = 1 THEN t ELSE NoLinkText]
  /\ job = [j \in Jobs |-> NewJob]
  /\ files = NoFiles
  /\ dirs = {}
  /\ trace = [j \in Jobs |-> <<>>]

NextLink == \E j \in Jobs : Receive(j) \/ Fetch(j)

SpecLink == InitLink /\ [][NextLink]_vars

(***************************************************************************)
(* update_progress called on its own (src/mega.py:132-146) on a path that  *)
(* a transfer running beside it, in another thread or process, is writing: *)
(* the transfer can act between any two statements of the monitor.  The    *)
(* monitor's positions: mon_call (before line 134), mon_test (before the   *)
(* test of line 135), mon_read (between lines 135 and 136), mon_edit (the  *)
(* await of line 140), mon_sleep (the await of line 146), mon_returned and *)
(* mon_raised (an exception has left the function).                        *)
(***************************************************************************)
MaxPolls == 2

MonitorInput == Path(dest_path, "doc", -1)

InitMonitor ==
  /\ text = [j \in Jobs |-> NoLinkText]
  /\ job = [j \in Jobs |->
              IF j = 1
              THEN [NewJob EXCEPT !.pc = "mon_call", !.file_path = MonitorInput]
              ELSE [NewJob EXCEPT !.pc = "ignored"]]
  /\ \/ files = NoFiles
     \/ \E size \in 0..MaxSize :
          files = WriteFile(NoFiles, MonitorInput, Plain([i \in 1..size |-> 0]))
  /\ dirs = {dest_path}
  /\ trace = [j \in Jobs |-> <<>>]

\* An exception leaves update_progress.
MonitorRaise(jr, e) == [jr EXCEPT !.pc = "mon_raised", !.report = ErrorReport(e)]

\* Line 134: the expected size is read, with no test that the path exists.
MonitorEnter(j) ==
  /\ job[j].pc = "mon_call"
  /\ LET jr == job[j]
         p == jr.file_path
     IN  IF ~exists(files, p)
         THEN Commit(j, MonitorRaise(jr, "FileNotFoundError"), files, dirs, <<>>)
         ELSE Commit(j, [jr EXCEPT !.pc = "mon_test", !.file_size = getsize(files, p)],
                     files, dirs, <<>>)

\* Line 135, reached from line 134 or from the return of the sleep.
MonitorTest(j) ==
  /\ job[j].pc \in {"mon_test", "mon_sleep"}
  /\ LET jr == job[j]
     IN  IF exists(files, jr.file_path)
         THEN Commit(j, [jr EXCEPT !.pc = "mon_read"], files, dirs, <<>>)
         ELSE Commit(j, [jr EXCEPT !.pc = "mon_returned"], files, dirs, <<>>)

\* Lines 136-140: the size is read again and the progress text sent.
MonitorRead(j) ==
  /\ job[j].pc = "mon_read"
  /\ CountOp(trace[j], "poll") < MaxPolls
  /\ LET jr == job[j]
         p == jr.file_path
     IN  IF ~exists(files, p)
         THEN Commit(j, MonitorRaise(jr, "FileNotFoundError"), files, dirs, <<>>)
         ELSE Commit(j, [jr EXCEPT !.pc = "mon_edit", !.current_size = getsize(files, p)],
                     files, dirs, <<PollEvent(p, getsize(files, p), jr.file_size)>>)

\* Lines 140-146: edit_text returns or raises; the loop is left or sleeps.
MonitorEdited(j) ==
  /\ job[j].pc = "mon_edit"
  /\ \E sink \in BOOLEAN :
       LET jr == job[j]
           ev == <<Ev(EditOutcome(sink), jr.file_path, NoCaption, <<>>)>>
       IN  IF ProgressEditRaises(sink)
           THEN Commit(j, MonitorRaise(jr, "EditFailure"), files, dirs, ev)
           ELSE IF MonitorDone(jr.current_size, jr.file_size)
           THEN Commit(j, [jr EXCEPT !.pc = "mon_returned"], files, dirs, ev)
           ELSE Commit(j, [jr EXCEPT !.pc = "mon_sleep"], files, dirs, ev)

\* The monitor of handler j is still running.
Monitoring(j) == job[j].pc \in {"mon_call", "mon_test", "mon_read", "mon_edit", "mon_sleep"}

\* The transfer appends to the file, starts it over, or gives up and
\* removes it.
TransferWrites(j) ==
  /\ Monitoring(j)
  /\ exists(files, job[j].file_path)
  /\ getsize(files, job[j].file_path) < MaxSize
  /\ files' = WriteFile(files, job[j].file_path,
                        Plain(Append(files[job[j].file_path].bytes, 0)))
  /\ UNCHANGED <<text, job, dirs, trace>>

TransferRestarts(j) ==
  /\ Monitoring(j)
  /\ exists(files, job[j].file_path)
  /\ getsize(files, job[j].file_path) > 0
  /\ files' = WriteFile(files, job[j].file_path, Plain(<<>>))
  /\ UNCHANGED <<text, job, dirs, trace>>

TransferAborts(j) ==
  /\ Monitoring(j)
  /\ exists(files, job[j].file_path)
  /\ files' = RemoveFile(files, job[j].file_path)
  /\ UNCHANGED <<text, job, dirs, trace>>

NextMonitor ==
  \E j \in Jobs :
    \/ MonitorEnter(j)
    \/ MonitorTest(j)
    \/ MonitorRead(j)
    \/ MonitorEdited(j)
    \/ TransferWrites(j)
    \/ TransferRestarts(j)
    \/ TransferAborts(j)

SpecMonitor == InitMonitor /\ [][NextMonitor]_vars

(***************************************************************************)
(* Vocabulary of the properties                                            *)
(***************************************************************************)
Terminal(j) == job[j].pc \in {"Completed", "Failed"}

Ceil(a, b) == (a + b - 1) \div b

OpsOf(j, ops) == SelectSeq(trace[j], LAMBDA e : e.op \in ops)

\* The send_document calls of handler j and their outcomes, in order.
Uploads(j) == OpsOf(j, {"send", "sent", "senderr"})

\* The chunk files handler j wrote, in order.
Chunks(j) == OpsOf(j, {"write"})

RECURSIVE Concat(_)
Concat(evs) == IF evs = <<>> THEN <<>> ELSE Head(evs).data \o Concat(Tail(evs))

IsSplitJob(j) == Chunks(j) # <<>>

\* The paths under which the artifacts of a job are staged.
ChunkFilesOf(j) ==
  {p \in DOMAIN files : p.dir = job[j].file_path.dir /\ p.name = job[j].file_path.name
                         /\ p.part >= 0}

MemberFilesOf(j) ==
  {p \in DOMAIN files :
     \E i \in DOMAIN job[j].obj.content.members : p = MemberPath(job[j].obj.content.members[i])}

(***************************************************************************)
(* C1.  Cleanup: once a job is Completed or Failed, nothing it staged is   *)
(* left on disk: not the fetched object, no chunk file, no expanded        *)
(* member, and not its staging directory.                                  *)
(***************************************************************************)
C1_NothingStagedAfterEnd ==
  \A j \in Jobs :
    Terminal(j) =>
      /\ ~exists(files, job[j].file_path)
      /\ ChunkFilesOf(j) = {}
      /\ MemberFilesOf(j) = {}
      /\ dest_path \notin dirs
      /\ extracted_path \notin dirs

(***************************************************************************)
(* C2.  The chunks of split_and_upload are uploaded in the order           *)
(* 0, 1, 2, ...: the n-th send_document call carries chunk n-1, each call  *)
(* but the last has returned successfully before the next is made, and a   *)
(* split that runs to its end has uploaded every chunk it read, once.      *)
(***************************************************************************)
C2_ChunksInAscendingOrder ==
  \A j \in Jobs :
    IsSplitJob(j) =>
      LET u == Uploads(j)
      IN  /\ \A n \in DOMAIN u :
               IF n % 2 = 1
               THEN /\ u[n].op = "send"
                    /\ u[n].path = ChunkPath(job[j].file_path, (n - 1) \div 2)
                    /\ u[n].cap.index = (n - 1) \div 2 + 1
               ELSE /\ u[n].op \in {"sent", "senderr"}
                    /\ u[n].path = u[n - 1].path
                    /\ (n < Len(u) => u[n].op = "sent")
          /\ job[j].pc = "Completed" =>
               /\ Len(u) = 2 * Ceil(Len(job[j].f), chunk_size)
               /\ u[Len(u)].op = "sent"

C2_Witness ==
  \E j \in Jobs :
    /\ job[j].pc = "Completed"
    /\ Len(Chunks(j)) = 3
    /\ Uploads(j)[5].path.part = 2

(***************************************************************************)
(* C3.  The caption of chunk i is "Part i+1/N" with N the number of chunks *)
(* of the file, N = ceil(S/C) for a file of S bytes.                       *)
(***************************************************************************)
C3_CaptionTotalIsChunkCount ==
  \A j \in Jobs : \A n \in DOMAIN trace[j] :
    LET e == trace[j][n]
    IN  (e.op = "send" /\ e.cap.kind = "part") =>
          /\ e.cap.index = e.path.part + 1
          /\ e.cap.total = Ceil(job[j].file_size, chunk_size)

(***************************************************************************)
(* C4.  The read loop of split_and_upload cuts a file of S bytes into      *)
(* ceil(S/C) chunks which, joined in index order, are the file; every      *)
(* chunk but the last has C bytes, none is empty or longer than C; S = C   *)
(* gives one chunk, S = C+1 gives chunks of C and 1 bytes, S = 0 none.     *)
(***************************************************************************)
C4_SplitRoundTrip ==
  \A j \in Jobs :
    (job[j].file_path = SplitInput /\ exists(files, SplitInput)) =>
      LET orig == files[SplitInput].bytes
          S == Len(orig)
          ch == Chunks(j)
      IN  /\ Concat(ch) = SubSeq(orig, 1, Len(Concat(ch)))
          /\ \A i \in DOMAIN ch :
               /\ ch[i].path = ChunkPath(SplitInput, i - 1)
               /\ Len(ch[i].data) \in 1..chunk_size
               /\ i < Len(ch) => Len(ch[i].data) = chunk_size
          /\ job[j].pc = "Completed" =>
               /\ Concat(ch) = orig
               /\ Len(ch) = Ceil(S, chunk_size)
               /\ S = 0 => ch = <<>>
               /\ S = chunk_size => Len(ch) = 1 /\ Len(ch[1].data) = chunk_size
               /\ S = chunk_size + 1 =>
                    Len(ch) = 2 /\ Len(ch[1].data) = chunk_size /\ Len(ch[2].data) = 1

C4_Witness ==
  \E j \in Jobs :
    /\ job[j].pc = "Completed"
    /\ job[j].file_path = SplitInput
    /\ Len(files[SplitInput].bytes) = chunk_size + 1
    /\ Len(Chunks(j)) = 2

(***************************************************************************)
(* C5.  When the upload of an item fails, the handler uploads nothing      *)
(* more: the failed call is its last operation, the job is Failed, the     *)
(* caller is told the cause, and the completion report is not emitted.     *)
(***************************************************************************)
C5_UploadFailureEndsJob ==
  \A j \in Jobs : \A n \in DOMAIN trace[j] :
    trace[j][n].op = "senderr" =>
      /\ n = Len(trace[j])
      /\ job[j].pc = "Failed"
      /\ job[j].report.kind = "error"
      /\ job[j].report.cause \in {"UploadFailure", "InvalidDocument"}
      /\ job[j].failed = Len(OpsOf(j, {"sent"})) + 1

C5_Witness ==
  \E j \in Jobs :
    /\ job[j].pc = "Failed"
    /\ job[j].failed = 2
    /\ Len(OpsOf(j, {"sent"})) = 1
    /\ trace[j][Len(trace[j])].op = "senderr"

(***************************************************************************)
(* C6.  The failure reported for an upload that raised tells which         *)
(* ordinal failed: two jobs whose uploads failed at different ordinals are *)
(* not reported with the same text.                                        *)
(***************************************************************************)
C6_ReportTellsOrdinal ==
  \A a, b \in Jobs :
    (/\ job[a].pc = "Failed" /\ job[b].pc = "Failed"
     /\ job[a].failed # 0 /\ job[b].failed # 0
     /\ job[a].failed # job[b].failed)
    => job[a].report # job[b].report

(***************************************************************************)
(* C7.  A text that is exactly one link is rejected as unsupported if and  *)
(* only if the link's kind segment is "folder"; a link of kind "file" goes *)
(* on to the fetch whatever its id and key are, and a link of kind         *)
(* "folder" is never fetched.                                              *)
(***************************************************************************)
IsLink(t) == t # <<>> /\ re_search(t) = t

C7_RejectedIffFolderKind ==
  \A j \in Jobs :
    (IsLink(text[j]) /\ job[j].pc # "new") =>
      /\ job[j].pc = "rejected" <=> LinkKind(text[j]) = "folder"
      /\ LinkKind(text[j]) = "folder" => OpsOf(j, {"fetch", "fetcherr"}) = <<>>
      /\ LinkKind(text[j]) = "file" => job[j].pc \notin {"rejected", "ignored"}

(***************************************************************************)
(* C8.  A message without a link, and a message with a folder link, start  *)
(* no job: that handler creates no directory, fetches nothing and uploads  *)
(* nothing.  A handler's first operation on disk or network comes after    *)
(* its link was validated, and while no handler has passed validation the  *)
(* staging area does not exist.                                            *)
(***************************************************************************)
HasNoLink(t) == re_search(t) = NoMatch

HasFolderLink(t) == ~HasNoLink(t) /\ LinkKind(re_search(t)) = "folder"

C8_NoJobWithoutSupportedLink ==
  /\ \A j \in Jobs :
       /\ (HasNoLink(text[j]) \/ HasFolderLink(text[j])) =>
            /\ trace[j] = <<>>
            /\ job[j].pc \in {"new", "ignored", "rejected"}
       /\ trace[j] # <<>> =>
            /\ trace[j][1].op = "makedirs"
            /\ job[j].mega_link = re_search(text[j])
            /\ LinkKind(job[j].mega_link) = "file"
  /\ (\A j \in Jobs : trace[j] = <<>>) => (dirs = {} /\ files = NoFiles)

C8_Witness ==
  /\ HasFolderLink(text[1]) /\ job[1].pc = "rejected"
  /\ HasNoLink(text[2]) /\ job[2].pc = "ignored"
  /\ dirs = {}

(***************************************************************************)
(* C9.  For a fetched sound archive of n members: the archive file is      *)
(* removed after the expansion and before the first member upload; the job *)
(* uploads members of its archive only, each at most once, and all n by    *)
(* the time the walk is over; each member's file is removed after its own  *)
(* successful upload and before the next upload starts.                    *)
(***************************************************************************)
IsArchiveJob(j) == job[j].obj.content.zip /\ job[j].obj.content.bad = 0

OwnMemberPaths(j) ==
  {MemberPath(job[j].obj.content.members[i]) : i \in DOMAIN job[j].obj.content.members}

WalkOver(j) ==
  /\ Terminal(j)
  /\ OpsOf(j, {"senderr"}) = <<>>
  /\ job[j].report.cause \notin {"FileNotFoundError"}

C9_ArchiveOrdering ==
  \A j \in Jobs :
    (IsArchiveJob(j) /\ OpsOf(j, {"extract"}) # <<>>) =>
      LET t == OpsOf(j, {"extract", "remove", "send", "sent", "senderr"})
          sends == OpsOf(j, {"send"})
      IN  /\ t[1].op = "extract"
          /\ t[2].op = "remove" /\ t[2].path = job[j].file_path
          /\ \A n \in 3..Len(t) :
               CASE (n % 3) = 0 -> t[n].op = "send"
                 [] (n % 3) = 1 -> t[n].op \in {"sent", "senderr"} /\ t[n].path = t[n - 1].path
                 [] OTHER -> t[n].op = "remove" /\ t[n].path = t[n - 1].path
                             /\ t[n - 1].op = "sent"
          /\ \A n \in DOMAIN sends : sends[n].path \in OwnMemberPaths(j)
          /\ \A n, m \in DOMAIN sends : sends[n].path = sends[m].path => n = m
          /\ WalkOver(j) => Len(sends) = Len(job[j].obj.content.members)

(***************************************************************************)
(* C10.  Two concurrent jobs do not touch each other's staged files: what  *)
(* a job uploads are the bytes of the object it fetched (the whole file,   *)
(* its chunk at that index, or a member of its archive), and a job fails   *)
(* only for a cause of its own (its fetch, its archive, its uploads).      *)
(***************************************************************************)
OwnBytes(j, e) ==
  LET c == job[j].obj.content
  IN  CASE e.cap.kind = "created" -> e.data = c.bytes
        [] e.cap.kind = "part" ->
             e.data = SubSeq(c.bytes, e.path.part * chunk_size + 1,
                             Min((e.path.part + 1) * chunk_size, Len(c.bytes)))
        [] OTHER ->
             \E i \in DOMAIN c.members :
               MemberPath(c.members[i]) = e.path /\ c.members[i].bytes = e.data

HasNestedMember(j) ==
  \E i \in DOMAIN job[j].obj.content.members : job[j].obj.content.members[i].dir # <<>>

C10_JobsIsolated ==
  \A j \in Jobs :
    /\ \A n \in DOMAIN trace[j] : trace[j][n].op = "send" => OwnBytes(j, trace[j][n])
    /\ job[j].pc = "Failed" =>
         \/ job[j].report.cause \in {"DownloadFailure", "BadZipFile", "UploadFailure"}
         \/ job[j].report.cause = "OSError" /\ HasNestedMember(j)

(***************************************************************************)
(* The progress monitor                                                    *)
(***************************************************************************)
\* The positions in trace[j] of the polls of handler j.
PollsAt(j) == {n \in DOMAIN trace[j] : trace[j][n].op = "poll"}

\* C11: the progress monitor runs while the fetch is still in flight: the
\* first poll of a job is made before its download_url has returned.
C11_MonitorStartsDuringFetch ==
  \A j \in Jobs : \A n \in PollsAt(j) :
    (\A k \in PollsAt(j) : n <= k)
      => \A m \in 1..(n - 1) : trace[j][m].op # "fetch"

\* What poll n of handler j reported: the percentage in hundredths, the size
\* it observed and the size it expected.
PollPct(j, n) == trace[j][n].data[1]

PollCurrent(j, n) == trace[j][n].data[2]

PollExpected(j, n) == trace[j][n].data[3]

\* The final size of the transfer of handler j.
FinalSize(j) == Len(job[j].obj.content.bytes)

SinkFailed(j) == \E n \in DOMAIN trace[j] : trace[j][n].op = "editerr"

\* C13: a failure of the status sink during progress monitoring does not
\* change the job: from the return of the poll's edit_text the handler
\* reaches the same position with the same locals, disk and operations
\* whether the edit was delivered or raised, and no job is ever reported
\* failed because of it.
C13_SinkFailureChangesNothing ==
  \A j \in Jobs :
    /\ job[j].pc = "await_progress" =>
         LET a == AfterProgress(job[j], files, dirs, TRUE)
             b == AfterProgress(job[j], files, dirs, FALSE)
         IN  /\ a.jr = b.jr /\ a.fs = b.fs /\ a.ds = b.ds
             /\ Tail(a.evs) = Tail(b.evs)
    /\ SinkFailed(j) => job[j].report # ErrorReport("EditFailure")

\* A job whose poll could not be shown went on to upload and completed.
C13_Witness ==
  \E j \in Jobs :
    /\ SinkFailed(j)
    /\ job[j].pc = "Completed"
    /\ \E n \in DOMAIN trace[j] : trace[j][n].op = "sent"

\* C14: the monitor stops without raising, both when the size it observes
\* reaches the size it expects and when the path disappears at any moment:
\* no exception ever leaves update_progress.
C14_MonitorStopsWithoutRaising ==
  \A j \in Jobs : job[j].pc # "mon_raised"

(***************************************************************************)
(* The plain-file branch                                                   *)
(***************************************************************************)
\* The operations of handler j after its n-th.
After(j, n) == SubSeq(trace[j], n + 1, Len(trace[j]))

\* C15: a job that classified its staged file as a non-archive of size S
\* (the read of line 195).  If S <= SplitThreshold it never writes a chunk
\* nor sends a part, makes at most one send_document call, of the whole
\* file under the plain caption, and when it completes it has made exactly
\* that one call and then removed the file.  If S > SplitThreshold it goes
\* to split_and_upload and never sends the whole file.
C15_PlainFileBranch ==
  \A j \in Jobs : \A n \in DOMAIN trace[j] :
    trace[j][n].op = "getsize" =>
      LET S == Len(trace[j][n].data)
          rest == After(j, n)
          sends == SelectSeq(rest, LAMBDA e : e.op = "send")
          p == job[j].file_path
      IN  IF S <= SplitThreshold
          THEN /\ \A i \in DOMAIN rest : rest[i].op # "write" /\ rest[i].cap.kind # "part"
               /\ job[j].pc \notin {"await_split_msg", "await_chunk"}
               /\ Len(sends) <= 1
               /\ \A i \in DOMAIN sends :
                    /\ sends[i].path = p /\ sends[i].cap = CreatedCaption
                    /\ job[j].alone => sends[i].data = trace[j][n].data
               /\ job[j].pc = "Completed" =>
                    /\ Len(rest) = 3
                    /\ rest[1].op = "send" /\ rest[2].op = "sent"
                    /\ rest[3].op = "remove" /\ rest[3].path = p
                    /\ job[j].alone => ~exists(files, p)
          ELSE /\ \A i \in DOMAIN rest :
                    /\ rest[i].cap.kind # "created"
                    /\ rest[i].op = "send" => rest[i].path.part >= 0
               /\ job[j].pc \notin {"await_upload_msg", "await_single"}
               /\ job[j].pc = "Completed" => \E i \in DOMAIN rest : rest[i].op = "write"

\* A file of exactly the threshold size was uploaded whole and removed, and
\* a larger one went through split_and_upload.
C15_Witness ==
  \E j, k \in Jobs :
    /\ job[j].pc = "Completed" /\ job[k].pc = "Completed"
    /\ \E n \in DOMAIN trace[j] :
         /\ trace[j][n].op = "getsize" /\ Len(trace[j][n].data) = SplitThreshold
         /\ \E m \in DOMAIN trace[j] : trace[j][m].cap = CreatedCaption
    /\ \E n \in DOMAIN trace[k] :
         /\ trace[k][n].op = "getsize" /\ Len(trace[k][n].data) > SplitThreshold
         /\ \E m \in DOMAIN trace[k] : trace[k][m].op = "sent" /\ trace[k][m].path.part >= 0

(***************************************************************************)
(* The outcome of a job                                                    *)
(***************************************************************************)
\* Nothing handler j asked of the network or of the archive failed.
EveryStageSucceeded(j) ==
  OpsOf(j, {"fetcherr", "extracterr", "senderr"}) = <<>>

\* No other handler has touched the disk.
RunsSolo(j) == \A k \in Jobs \ {j} : trace[k] = <<>>

\* C16: a job that has ended and in which the fetch, the expansion or
\* splitting and every upload succeeded has ended Completed, with the
\* completion report, whatever the layout of its archive.
C16_FullSuccessCompletes ==
  \A j \in Jobs :
    (Terminal(j) /\ EveryStageSucceeded(j) /\ RunsSolo(j))
      => job[j].pc = "Completed" /\ job[j].report = CompletedReport

(***************************************************************************)
(* A failed expansion                                                      *)
(***************************************************************************)
\* extractall raised in handler j.
ExpansionFailed(j) == OpsOf(j, {"extracterr"}) # <<>>

\* Operation e sends a member that the failed expansion of handler j wrote.
SendsExtractedOf(j, e) ==
  /\ e.op = "send"
  /\ \E i \in DOMAIN ExtractedMembers(job[j].obj.content) :
       /\ e.path = MemberPath(job[j].obj.content.members[i])
       /\ e.data = job[j].obj.content.members[i].bytes

\* C17: a job whose expansion failed ends Failed without an upload and
\* without having removed the archive, and no member it extracted before
\* the failure is ever uploaded, by any handler.
C17_FailedExpansionUploadsNothing ==
  \A j \in Jobs :
    ExpansionFailed(j) =>
      /\ job[j].pc = "Failed"
      /\ Uploads(j) = <<>>
      /\ OpsOf(j, {"remove"}) = <<>>
      /\ \A k \in Jobs : \A n \in DOMAIN trace[k] : ~SendsExtractedOf(j, trace[k][n])

(***************************************************************************)
(* Chunk files                                                             *)
(***************************************************************************)
\* C18: while split_and_upload runs, at most one chunk file is on disk:
\* the one whose upload is in flight, and none once the split has run to its
\* end.  Each chunk file is written immediately before its send_document
\* call, and removed right after that call has returned successfully, before
\* the next chunk file is written.
C18_ChunksEphemeral ==
  \A j \in Jobs :
    LET c == OpsOf(j, {"write", "send", "sent", "senderr", "remove"})
    IN  /\ Cardinality(ChunkFilesOf(j)) <= 1
        /\ job[j].pc = "await_chunk" => ChunkFilesOf(j) = {job[j].sending}
        /\ job[j].pc = "Completed" => ChunkFilesOf(j) = {}
        /\ \A n \in DOMAIN c :
             /\ c[n].op = "write" =>
                  /\ n < Len(c) /\ c[n + 1].op = "send" /\ c[n + 1].path = c[n].path
                  /\ n > 1 => c[n - 1].op = "remove"
             /\ c[n].op = "sent" =>
                  n < Len(c) /\ c[n + 1].op = "remove" /\ c[n + 1].path = c[n].path
             /\ c[n].op = "remove" =>
                  n > 1 /\ c[n - 1].op = "sent" /\ ~exists(files, c[n].path)

\* The second chunk is being uploaded and the first is gone.
C18_Witness ==
  \E j \in Jobs :
    /\ job[j].pc = "await_chunk"
    /\ job[j].chunk_index = 1
    /\ ChunkFilesOf(j) = {ChunkPath(job[j].file_path, 1)}
    /\ ~exists(files, ChunkPath(job[j].file_path, 0))

(***************************************************************************)
(* Earlier jobs                                                            *)
(***************************************************************************)
\* Operation e sends a member of the archive handler j fetched.
SendsOwnMember(j, e) ==
  \E i \in DOMAIN job[j].obj.content.members :
    /\ e.path = MemberPath(job[j].obj.content.members[i])
    /\ e.data = job[j].obj.content.members[i].bytes

\* C19: an archive job started after every other job has ended, however
\* those ended, uploads the members of its own archive and nothing else: each
\* of its send_document calls carries one of its members, and when its walk
\* is over it has made one call per member.
C19_ArchiveJobHistoryIndependent ==
  \A j \in Jobs :
    (job[j].alone /\ IsArchiveJob(j)) =>
      /\ \A n \in DOMAIN trace[j] :
           trace[j][n].op = "send" => SendsOwnMember(j, trace[j][n])
      /\ WalkOver(j) =>
           Len(OpsOf(j, {"send"})) = Len(job[j].obj.content.members)

====
